---------------------------- MODULE Spec2Model ----------------------------
(***************************************************************************)
(* A model of pwnlib/rop/gadgetfinder.py: the gadget classifier, the chain *)
(* verifier, the GadgetFinder constructor, the scanner, the x86 structural *)
(* filter, the deduplicator and the gadget cache.                          *)
(*                                                                         *)
(* Python strings are sequences of one-character strings, so that split,   *)
(* join, substring search and "x in str(reg)" are computed, not assumed.   *)
(* Byte strings are sequences of numbers 0..255.                           *)
(***************************************************************************)
EXTENDS Integers, Sequences, FiniteSets, TLC

VARIABLES
    gadget_filter,  \* GadgetFinder.gadget_filter (a category name)
    gadgets,        \* the candidate list handed to a filter pass
    new,            \* the list a filter pass returned
    pass,           \* which pass ran last: "none", "clean", "dedup"
    c_arch,         \* GadgetClassifier.arch
    c_gadget,       \* the candidate handed to classify, with its effect mapping
    c_result,       \* what classify returned: "pending", None or a Gadget
    k_args,         \* the arguments of GadgetFinder(elfs, gadget_filter, depth)
    k_self,         \* the GadgetFinder under construction: its fields, or the error
    v_path,         \* the chain handed to verify_path, with its effect mapping
    v_conditions,   \* the post-conditions: pairs of register name and wanted value
    v_result,       \* what verify_path returned
    finder,         \* a constructed GadgetFinder (self)
    elf,            \* the ELF it was constructed on
    cachedir,       \* the files of <tmp>/binjitsu-rop-cache, by name
    scan_out,       \* what __find_all_gadgets returned for one segment
    calls,          \* the load_gadgets calls made so far, with their results
    saved,          \* by cache file name, the last __cache_save call
    loaded,         \* the last __cache_load call and what it returned
    procs           \* the processes that share the cache: where each is in its call

fvars == <<gadget_filter, gadgets, new, pass>>
cvars == <<c_arch, c_gadget, c_result>>
kvars == <<k_args, k_self>>
vvars == <<v_path, v_conditions, v_result>>
lvars == <<finder, elf, cachedir, scan_out, calls, saved, loaded>>
vars == <<fvars, cvars, kvars, vvars, lvars, procs>>

----------------------------------------------------------------------------
(* Text.                                                                   *)

None == [tag |-> "None"]

\* the parts of the state a specification does not exercise
IdleFilter == gadget_filter = <<>> /\ gadgets = <<>> /\ new = <<>> /\ pass = "off"
IdleLoader ==
    /\ finder = None /\ elf = None /\ cachedir = <<>> /\ scan_out = None
    /\ calls = <<>> /\ saved = <<>> /\ loaded = None
IdleProcs == procs = <<>>
IdleVerifier == v_path = None /\ v_conditions = {} /\ v_result = None
IdleConstructor == k_args = None /\ k_self = None
IdleClassifier == c_arch = "off" /\ c_gadget = None /\ c_result = None

T_ret      == <<"r","e","t">>
T_jmp      == <<"j","m","p">>
T_call     == <<"c","a","l","l">>
T_int      == <<"i","n","t">>
T_sysenter == <<"s","y","s","e","n","t","e","r">>
T_syscall  == <<"s","y","s","c","a","l","l">>
T_svc      == <<"s","v","c">>
T_all      == <<"a","l","l">>
T_pop      == <<"p","o","p">>
T_nop      == <<"n","o","p">>
T_retf     == <<"r","e","t","f">>
T_mov      == <<"m","o","v">>
T_db       == <<"d","b">>
T_int3     == <<"i","n","t","3">>
T_jne      == <<"j","n","e">>
T_jg       == <<"j","g">>
T_jge      == <<"j","g","e">>
T_eax      == <<"e","a","x">>
T_0x80     == <<"0","x","8","0">>
T_empty    == <<>>
T_sep      == <<";"," ">>
T_space    == <<" ">>

Range(s) == {s[i] : i \in DOMAIN s}

\* s[i:] of Python, for 1-based i
Drop(s, i) == SubSeq(s, i, Len(s))

\* whether pat occurs in s starting at (1-based) position i
MatchesAt(pat, s, i) ==
    /\ i >= 1
    /\ i + Len(pat) - 1 <= Len(s)
    /\ \A j \in 1..Len(pat) : s[i + j - 1] = pat[j]

\* Python's "pat in s"
Contains(pat, s) == \E i \in 1..(Len(s) + 1) : MatchesAt(pat, s, i)

\* s.split(" ")[0]: the text before the first space, the whole text if none
SplitSpaceFirst(s) ==
    IF \E i \in 1..Len(s) : s[i] = " "
    THEN LET k == CHOOSE i \in 1..Len(s) :
                    /\ s[i] = " "
                    /\ \A j \in 1..(i - 1) : s[j] # " "
         IN SubSeq(s, 1, k - 1)
    ELSE s

\* s.split()[0]: leading whitespace is skipped first (IndexError when there
\* is no word at all, which an instruction text never is)
SplitWsFirst(s) ==
    LET a == CHOOSE i \in 1..Len(s) :
                 /\ s[i] # " "
                 /\ \A j \in 1..(i - 1) : s[j] = " "
    IN SplitSpaceFirst(Drop(s, a))

\* sep.join(list)
RECURSIVE Join(_, _)
Join(sep, list) ==
    IF Len(list) = 0 THEN <<>>
    ELSE IF Len(list) = 1 THEN list[1]
    ELSE list[1] \o sep \o Join(sep, Tail(list))

\* len(list(re.finditer(pat, s))) for a literal pat: the matches do not
\* overlap, the search resumes after the end of each match
RECURSIVE CountFrom(_, _, _)
CountFrom(pat, s, i) ==
    IF i + Len(pat) - 1 > Len(s) THEN 0
    ELSE IF MatchesAt(pat, s, i) THEN 1 + CountFrom(pat, s, i + Len(pat))
    ELSE CountFrom(pat, s, i + 1)

CountMatches(pat, s) == CountFrom(pat, s, 1)

\* x in list
InList(x, list) == \E i \in 1..Len(list) : list[i] = x

\* decode.mnemonic + " " + decode.op_str
InsnText(mnemonic, op_str) == mnemonic \o T_space \o op_str

----------------------------------------------------------------------------
(* The decoder's view of x86: what capstone prints for the byte sequences  *)
(* the model's segments are made of (mnemonic and operand text).           *)

X86Insns ==
    { [bytes |-> <<195>>,      mnemonic |-> T_ret,      op_str |-> T_empty],
      [bytes |-> <<194, 8, 0>>, mnemonic |-> T_ret,     op_str |-> <<"8">>],
      [bytes |-> <<88>>,       mnemonic |-> T_pop,      op_str |-> T_eax],
      [bytes |-> <<144>>,      mnemonic |-> T_nop,      op_str |-> T_empty],
      [bytes |-> <<203>>,      mnemonic |-> T_retf,     op_str |-> T_empty],
      [bytes |-> <<255, 224>>, mnemonic |-> T_jmp,      op_str |-> T_eax],
      [bytes |-> <<255, 208>>, mnemonic |-> T_call,     op_str |-> T_eax],
      [bytes |-> <<205, 128>>, mnemonic |-> T_int,      op_str |-> T_0x80],
      [bytes |-> <<15, 5>>,    mnemonic |-> T_syscall,  op_str |-> T_empty],
      [bytes |-> <<15, 52>>,   mnemonic |-> T_sysenter, op_str |-> T_empty] }

\* the instruction of the table that encodes as b
X86Insn(b) == CHOOSE d \in X86Insns : d.bytes = b

RECURSIVE Flatten(_)
Flatten(seqs) == IF seqs = <<>> THEN <<>> ELSE Head(seqs) \o Flatten(Tail(seqs))

\* a candidate as the scanner builds it (onegad): address, gadget, bytes
Candidate(address, insns) ==
    [address |-> address,
     gadget  |-> [i \in 1..Len(insns) |-> InsnText(insns[i].mnemonic, insns[i].op_str)],
     bytes   |-> Flatten([i \in 1..Len(insns) |-> insns[i].bytes])]

\* all sequences over S of length lo..hi
SeqsOf(S, lo, hi) == UNION {[1..n -> S] : n \in lo..hi}

----------------------------------------------------------------------------
(* GadgetFinder.__passCleanX86 and its helpers.                            *)

\* __checkInstructionBlackListedX86
checkInstructionBlackListedX86(insts) ==
    LET bl == <<T_db, T_int3, T_call, T_jmp, T_nop, T_jne, T_jg, T_jge>>
    IN \E i \in 1..Len(insts) : \E b \in 1..Len(bl) :
           SplitSpaceFirst(insts[i]) = bl[b]

\* __checkMultiBr: how many instructions have their mnemonic in br
RECURSIVE checkMultiBr(_, _)
checkMultiBr(insts, br) ==
    IF insts = <<>> THEN 0
    ELSE (IF InList(SplitWsFirst(Head(insts)), br) THEN 1 ELSE 0)
         + checkMultiBr(Tail(insts), br)

\* the br list __passCleanX86 builds from self.gadget_filter
BranchList(filter) ==
    IF filter = T_all THEN <<T_ret, T_int, T_sysenter, T_jmp, T_call>>
    ELSE <<filter>>

\* the body of the loop of __passCleanX86: TRUE when the gadget reaches
\* "new += [gadget]", FALSE when one of the tests hits "continue"
passCleanKeeps(gadget, filter, multibr) ==
    LET br    == BranchList(filter)
        insts == gadget.gadget
    IN  IF Len(insts) = 1 /\ ~InList(SplitSpaceFirst(insts[1]), br) THEN FALSE
        ELSE IF ~InList(SplitSpaceFirst(insts[Len(insts)]), br) THEN FALSE
        ELSE IF checkInstructionBlackListedX86(insts) THEN FALSE
        ELSE IF ~multibr /\ checkMultiBr(insts, br) > 1 THEN FALSE
        ELSE IF CountMatches(T_ret, Join(T_sep, gadget.gadget)) > 1 THEN FALSE
        ELSE TRUE

RECURSIVE passCleanX86(_, _, _)
passCleanX86(gs, filter, multibr) ==
    IF gs = <<>> THEN <<>>
    ELSE (IF passCleanKeeps(Head(gs), filter, multibr) THEN <<Head(gs)>> ELSE <<>>)
         \o passCleanX86(Tail(gs), filter, multibr)

----------------------------------------------------------------------------
(* GadgetFinder.__deduplicate.                                             *)

JoinedText(gadget) == Join(T_sep, gadget.gadget)

\* the loop of __deduplicate from position i on, with new and insts so far
RECURSIVE dedupLoop(_, _, _, _)
dedupLoop(gs, i, newSoFar, insts) ==
    IF i > Len(gs) THEN newSoFar
    ELSE LET insns == JoinedText(gs[i])
         IN IF InList(insns, insts)
            THEN dedupLoop(gs, i + 1, newSoFar, insts)
            ELSE dedupLoop(gs, i + 1, Append(newSoFar, gs[i]), Append(insts, insns))

\* a deduplication that compares addresses instead of instruction text
dedupByAddress(gs) ==
    LET firstAt(i) == \A j \in 1..(i - 1) : gs[j].address # gs[i].address
        F[i \in 0..Len(gs)] ==
            IF i = 0 THEN <<>>
            ELSE IF firstAt(i) THEN Append(F[i - 1], gs[i]) ELSE F[i - 1]
    IN F[Len(gs)]

deduplicate(gs) == dedupLoop(gs, 1, <<>>, <<>>)

----------------------------------------------------------------------------
(* The filter passes on their own: any candidate list, one pass.           *)

MaxInsns == 3
MaxFilterCands == 2
MaxDedupCands == 3

X86Filters == {T_ret, T_jmp, T_call, T_int, T_sysenter, T_syscall, T_all}

\* instructions the filter rules tell apart
FilterInsns ==
    {X86Insn(<<195>>), X86Insn(<<88>>), X86Insn(<<203>>), X86Insn(<<255, 224>>),
     X86Insn(<<205, 128>>), X86Insn(<<15, 5>>)}

FilterCands == {Candidate(16, insns) : insns \in SeqsOf(FilterInsns, 1, MaxInsns)}

\* three gadget texts at two addresses each
DedupCands ==
    {Candidate(a, insns) :
        a \in {16, 17},
        insns \in {<<X86Insn(<<195>>)>>,
                   <<X86Insn(<<88>>), X86Insn(<<195>>)>>,
                   <<X86Insn(<<88>>), X86Insn(<<88>>), X86Insn(<<195>>)>>}}

InitFilter ==
    /\ gadget_filter \in X86Filters
    /\ gadgets \in SeqsOf(FilterCands, 0, MaxFilterCands)
    /\ new = <<>>
    /\ pass = "none"
    /\ IdleClassifier /\ IdleConstructor /\ IdleVerifier /\ IdleLoader /\ IdleProcs

InitDedup ==
    /\ gadget_filter = T_all
    /\ gadgets \in SeqsOf(DedupCands, 0, MaxDedupCands)
    /\ new = <<>>
    /\ pass = "none"
    /\ IdleClassifier /\ IdleConstructor /\ IdleVerifier /\ IdleLoader /\ IdleProcs

PassCleanX86 ==
    /\ pass = "none"
    /\ new' = passCleanX86(gadgets, gadget_filter, FALSE)
    /\ pass' = "clean"
    /\ UNCHANGED <<gadget_filter, gadgets, cvars, kvars, vvars, lvars, procs>>

Deduplicate ==
    /\ pass = "none"
    /\ new' = deduplicate(gadgets)
    /\ pass' = "dedup"
    /\ UNCHANGED <<gadget_filter, gadgets, cvars, kvars, vvars, lvars, procs>>

NextFilter == PassCleanX86
NextDedup == Deduplicate

SpecFilter == InitFilter /\ [][NextFilter]_vars
SpecDedup == InitDedup /\ [][NextDedup]_vars

\* C2: after the deduplication pass no two kept gadgets share their joined
\* instruction text, every joined text of the input is kept once, and the
\* gadget kept for a text is the first of the input with that text, whatever
\* its address.
C2_DedupFirstPerText ==
    pass = "dedup" =>
        /\ \A i, j \in 1..Len(new) :
               i # j => JoinedText(new[i]) # JoinedText(new[j])
        /\ \A i \in 1..Len(gadgets) :
               \E j \in 1..Len(new) : JoinedText(new[j]) = JoinedText(gadgets[i])
        /\ \A j \in 1..Len(new) :
               \E k \in 1..Len(gadgets) :
                   /\ JoinedText(gadgets[k]) = JoinedText(new[j])
                   /\ \A m \in 1..(k - 1) :
                          JoinedText(gadgets[m]) # JoinedText(new[j])
                   /\ new[j] = gadgets[k]

\* a list with the same text at two addresses, later one first dropped
C2_Witness ==
    /\ pass = "dedup"
    /\ Len(gadgets) = 3
    /\ Len(new) = 2
    /\ JoinedText(gadgets[1]) = JoinedText(gadgets[3])
    /\ gadgets[1].address # gadgets[3].address
    /\ JoinedText(gadgets[2]) # JoinedText(gadgets[1])

\* the category set the structural filter is described with: the chosen
\* category, or for "all" every category of the x86 pattern table
ActiveCategories(filter) ==
    IF filter = T_all THEN X86Filters \ {T_all} ELSE {filter}

Mnemonics(insts) == [i \in 1..Len(insts) |-> SplitSpaceFirst(insts[i])]

DescribedKeep(g, filter) ==
    LET mn == Mnemonics(g.gadget)
        bl == {T_db, T_int3, T_call, T_jmp, T_nop, T_jne, T_jg, T_jge}
        cats == ActiveCategories(filter)
    IN  /\ mn[Len(mn)] \in cats
        /\ \A i \in 1..Len(mn) : mn[i] \notin bl
        /\ Cardinality({i \in 1..Len(mn) : mn[i] \in cats}) <= 1
        /\ CountMatches(T_ret, JoinedText(g)) <= 1

\* C3: on x86 the structural filter keeps a candidate exactly when its last
\* mnemonic is in the active category set (for "all": every category), no
\* mnemonic is disallowed, at most one instruction of the active categories
\* occurs and "ret" occurs at most once in the joined text.
C3_StructuralFilterIff ==
    pass = "clean" =>
        new = SelectSeq(gadgets, LAMBDA g : DescribedKeep(g, gadget_filter))

----------------------------------------------------------------------------
(* GadgetMapper and GadgetClassifier.                                      *)
(* The symbolic executor is a collaborator: its result, the effect mapping *)
(* of a candidate, is an input.  A mapping is the sequence of pairs the    *)
(* loop "for reg_out, _ in gadget_mapper" visits; a destination is a       *)
(* register or a memory pointer, an expression is one of                   *)
(*   mem: a memory read [base + disp] of size bits     (_is_mem)           *)
(*   reg: a register                                   (_is_reg)           *)
(*   cst: a constant                                   (_is_cst)           *)
(*   op : base + off, what extract_offset takes apart                      *)

T_esp    == <<"e","s","p">>
T_eip    == <<"e","i","p">>
T_eflags == <<"e","f","l","a","g","s">>
T_rsp    == <<"r","s","p">>
T_rip    == <<"r","i","p">>
T_rax    == <<"r","a","x">>
T_rflags == <<"r","f","l","a","g","s">>
T_sp     == <<"s","p">>
T_pc     == <<"p","c">>
T_ip     == <<"i","p">>
T_r0     == <<"r","0">>
T_apsr   == <<"a","p","s","r">>
T_flags  == <<"f","l","a","g","s">>
T_M      == <<"M">>

Archs == {"i386", "amd64", "arm"}

\* GadgetMapper.__init__: self.align
Align(arch) == CASE arch = "i386" -> 4 [] arch = "amd64" -> 8 [] arch = "arm" -> 4

\* the register names of each cpu module, as str() prints them
SpName(arch)    == CASE arch = "i386" -> T_esp [] arch = "amd64" -> T_rsp [] arch = "arm" -> T_sp
IpName(arch)    == CASE arch = "i386" -> T_eip [] arch = "amd64" -> T_rip [] arch = "arm" -> T_pc
GprName(arch)   == CASE arch = "i386" -> T_eax [] arch = "amd64" -> T_rax [] arch = "arm" -> T_r0
FlagsName(arch) == CASE arch = "i386" -> T_eflags [] arch = "amd64" -> T_rflags [] arch = "arm" -> T_apsr

RegDst(name) == [ptr |-> FALSE, name |-> name]
PtrDst(name) == [ptr |-> TRUE, name |-> name]
MemExp(base, disp, size) == [k |-> "mem", base |-> base, disp |-> disp, size |-> size]
RegExp(name) == [k |-> "reg", name |-> name]
CstExp(value) == [k |-> "cst", value |-> value]
OpExp(base, off) == [k |-> "op", base |-> base, off |-> off]

\* extract_offset(e)[1]: the constant of a base + constant expression
ExtractOffset(e) == IF e.k = "op" THEN e.off ELSE 0

\* Mem(reg_str, offset, reg_size) of pwnlib.rop.gadgets
Mem(reg_str, offset, size) == [tag |-> "Mem", reg |-> reg_str, offset |-> offset, size |-> size]

\* what the loop body stores in reg[str(reg_out)] for an expression
EffectOf(inputs) ==
    CASE inputs.k = "mem" -> Mem(inputs.base, inputs.disp, inputs.size)
      [] inputs.k = "reg" -> [tag |-> "Reg", name |-> inputs.name]
      [] inputs.k = "cst" -> [tag |-> "Cst", value |-> inputs.value]
      [] OTHER            -> [tag |-> "Locs", regs |-> <<inputs.base>>]

\* reg[key] = value on a dict kept as a set of key/value pairs
DictSet(d, key, value) == {p \in d : p.key # key} \cup {[key |-> key, value |-> value]}

\* the acceptance test that ends classify
Accepts(ip_move, move, align) == ip_move = (move - align)

\* the loop of classify from entry i on; st holds reg, move and ip_move
RECURSIVE classifyLoop(_, _, _, _)
classifyLoop(gadget, align, i, st) ==
    LET mp == gadget.mapper.entries IN
    IF i > Len(mp)
    THEN IF Accepts(st.ip_move, st.move, align)
         THEN [tag |-> "Gadget", address |-> gadget.address, insns |-> gadget.gadget,
               regs |-> st.reg, move |-> st.move, bytes |-> gadget.bytes]
         ELSE None
    ELSE LET reg_out == mp[i].dst
             inputs  == mp[i].src
         IN  IF reg_out.ptr THEN None
             ELSE IF Contains(T_flags, reg_out.name)
                  THEN classifyLoop(gadget, align, i + 1, st)
             ELSE IF Contains(T_sp, reg_out.name)
                  THEN classifyLoop(gadget, align, i + 1,
                                    [st EXCEPT !.move = ExtractOffset(inputs)])
             ELSE IF (Contains(T_ip, reg_out.name) \/ Contains(T_pc, reg_out.name))
                     /\ inputs.k = "mem"
                  THEN classifyLoop(gadget, align, i + 1,
                                    [st EXCEPT !.ip_move = inputs.disp])
             ELSE classifyLoop(gadget, align, i + 1,
                      [st EXCEPT !.reg = DictSet(st.reg, reg_out.name, EffectOf(inputs))])

\* GadgetClassifier.classify; gadget.mapper is what
\* sym_exec_gadget_and_get_mapper(bytes) returned
classify(gadget, arch) ==
    IF ~gadget.mapper.ok THEN None
    ELSE classifyLoop(gadget, Align(arch), 1, [reg |-> {}, move |-> 0, ip_move |-> 0])

MaxEntries == 3

\* the pairs an effect mapping of the architecture may hold
MapperEntries(arch) ==
    LET w == Align(arch) IN
       {[dst |-> RegDst(SpName(arch)), src |-> OpExp(SpName(arch), o)] : o \in {w, 2 * w}}
    \cup {[dst |-> RegDst(IpName(arch)), src |-> MemExp(SpName(arch), d, 8 * w)] :
              d \in {0 - w, 0, w}}
    \cup {[dst |-> RegDst(IpName(arch)), src |-> e] :
              e \in {RegExp(GprName(arch)), MemExp(GprName(arch), 0, 8 * w),
                     OpExp(IpName(arch), 1)}}
    \cup {[dst |-> RegDst(GprName(arch)), src |-> e] :
              e \in {MemExp(SpName(arch), 0, 8 * w), RegExp(SpName(arch)), CstExp(1)}}
    \cup {[dst |-> RegDst(FlagsName(arch)), src |-> CstExp(0)]}
    \cup {[dst |-> PtrDst(T_M), src |-> RegExp(GprName(arch))]}

\* a mapping writes each destination once, and always the instruction
\* pointer (every lifted instruction advances it); the executor may also
\* fail (sym_exec_gadget_and_get_mapper returns None)
NoMapper == [ok |-> FALSE, entries |-> <<>>]

Mappers(arch) ==
    {[ok |-> TRUE, entries |-> m] :
        m \in {m \in SeqsOf(MapperEntries(arch), 1, MaxEntries) :
                  /\ \A i, j \in 1..Len(m) : i # j => m[i].dst # m[j].dst
                  /\ \E i \in 1..Len(m) : m[i].dst = RegDst(IpName(arch))}}
    \cup {NoMapper}

T_bx       == <<"b","x">>
T_pop_r4pc == <<"{","r","4",","," ","p","c","}">>

\* the source expression of the instruction pointer in a mapping
IpSource(arch, m) == m[CHOOSE i \in 1..Len(m) : m[i].dst = RegDst(IpName(arch))].src

\* the candidate whose bytes the executor was run on: one that returns
\* through the stack for an instruction pointer read from the stack, one
\* that jumps through a register for one taken from a register, and one
\* that decoded to no control transfer for one that only advanced
ClassifierCand(arch, mp) ==
    LET kind == IF ~mp.ok THEN "ret"
                ELSE LET src == IpSource(arch, mp.entries)
                     IN IF src.k = "mem" /\ src.base = SpName(arch) THEN "ret"
                        ELSE IF src.k = "op" THEN "fall" ELSE "jmp"
    IN IF arch = "arm"
       THEN CASE kind = "ret" ->
                   [address |-> 16, gadget |-> <<InsnText(T_pop, T_pop_r4pc)>>,
                    bytes |-> <<16, 128, 189, 232>>]
              [] kind = "jmp" ->
                   [address |-> 16, gadget |-> <<InsnText(T_bx, T_r0)>>,
                    bytes |-> <<16, 255, 47, 225>>]
              [] OTHER ->
                   [address |-> 16, gadget |-> <<InsnText(T_mov, <<"r","0",","," ","r","0">>)>>,
                    bytes |-> <<0, 0, 160, 225>>]
       ELSE CASE kind = "ret" -> Candidate(16, <<X86Insn(<<195>>)>>)
              [] kind = "jmp" -> Candidate(16, <<X86Insn(<<88>>), X86Insn(<<255, 224>>)>>)
              [] OTHER -> Candidate(16, <<X86Insn(<<88>>)>>)

InitClassifier ==
    /\ c_arch \in Archs
    /\ \E mp \in Mappers(c_arch) :
           LET g == ClassifierCand(c_arch, mp)
           IN c_gadget = [address |-> g.address, gadget |-> g.gadget,
                          bytes |-> g.bytes, mapper |-> mp]
    /\ c_result = [tag |-> "pending"]
    /\ IdleFilter /\ IdleConstructor /\ IdleVerifier /\ IdleLoader /\ IdleProcs

Classify ==
    /\ c_result = [tag |-> "pending"]
    /\ c_result' = classify(c_gadget, c_arch)
    /\ UNCHANGED <<c_arch, c_gadget, fvars, kvars, vvars, lvars, procs>>

NextClassifier == Classify

SpecClassifier == InitClassifier /\ [][NextClassifier]_vars

IpEntries(mp) == {i \in 1..Len(mp) : mp[i].dst \in {RegDst(T_eip), RegDst(T_rip), RegDst(T_pc)}}
SpEntries(mp) == {i \in 1..Len(mp) : mp[i].dst \in {RegDst(T_esp), RegDst(T_rsp), RegDst(T_sp)}}

\* the stack-pointer displacement of a mapping (0 when it leaves sp alone)
MoveOf(mp) ==
    IF SpEntries(mp) = {} THEN 0
    ELSE ExtractOffset(mp[CHOOSE i \in SpEntries(mp) : TRUE].src)

\* C1: classify returns a Gadget only if the new instruction pointer is
\* loaded from a memory read whose displacement is move - word_size; an
\* instruction pointer set from a register, or read at another displacement,
\* is rejected.
C1_OnlyStackReturn ==
    c_result.tag = "Gadget" =>
        \E i \in IpEntries(c_gadget.mapper.entries) :
            LET src == c_gadget.mapper.entries[i].src
            IN  /\ src.k = "mem"
                /\ src.disp = MoveOf(c_gadget.mapper.entries) - Align(c_arch)

----------------------------------------------------------------------------
(* GadgetFinder.__init__: the pattern tables and the choice of one list.   *)
(* A pattern is [op, size, align] as in the source; op, a regular          *)
(* expression over bytes, is the sequence of the byte sets it matches      *)
(* position by position.                                                   *)

Byte == 0..255
MAX_SIZE == 100

Pat(op, size, align) == [op |-> op, size |-> size, align |-> align]

x86_gadget_ret      == << Pat(<<{195}>>, 1, 1), Pat(<<{194}, Byte, Byte>>, 3, 1) >>
x86_gadget_jmp      == << Pat(<<{255}, {32, 33, 34, 35, 38, 39}>>, 2, 1),
                          Pat(<<{255}, {224, 225, 226, 227, 228, 230, 231}>>, 2, 1),
                          Pat(<<{255}, {16, 17, 18, 19, 22, 23}>>, 2, 1) >>
x86_gadget_call     == << Pat(<<{255}, {208, 209, 210, 211, 212, 214, 215}>>, 2, 1) >>
x86_gadget_int      == << Pat(<<{205}, {128}>>, 2, 1) >>
x86_gadget_sysenter == << Pat(<<{15}, {52}>>, 2, 1) >>
x86_gadget_syscall  == << Pat(<<{15}, {5}>>, 2, 1) >>

\* x86_gadget with its "all" entry, the concatenation of the other lists
x86_gadget ==
    (T_ret :> x86_gadget_ret) @@ (T_jmp :> x86_gadget_jmp) @@
    (T_call :> x86_gadget_call) @@ (T_int :> x86_gadget_int) @@
    (T_sysenter :> x86_gadget_sysenter) @@ (T_syscall :> x86_gadget_syscall) @@
    (T_all :> x86_gadget_ret \o x86_gadget_jmp \o x86_gadget_call \o
              x86_gadget_int \o x86_gadget_sysenter \o x86_gadget_syscall)

arm_gadget_ret == << Pat(<<Byte, {128}, {189}, {232}>>, 4, 4) >>
\* "\x00-\xff]{3}\xef" as written: the bytes 00 2d ff, three "]", then ef
arm_gadget_svc == << Pat(<<{0}, {45}, {255}, {93}, {93}, {93}, {239}>>, 4, 4) >>

arm_gadget ==
    (T_ret :> arm_gadget_ret) @@ (T_svc :> arm_gadget_svc) @@
    (T_all :> arm_gadget_ret \o arm_gadget_svc)

\* the dict literal arch_mode_gadget evaluates every entry, so it looks
\* gadget_filter up in both tables whatever the architecture is
ArchModeGadgetRaises(filter) ==
    filter \notin DOMAIN x86_gadget \/ filter \notin DOMAIN arm_gadget

arch_mode_gadget(filter) ==
    [a \in Archs |->
        CASE a = "i386"  -> [arch |-> "CS_ARCH_X86", mode |-> "CS_MODE_32",  gadget_re |-> x86_gadget[filter]]
          [] a = "amd64" -> [arch |-> "CS_ARCH_X86", mode |-> "CS_MODE_64",  gadget_re |-> x86_gadget[filter]]
          [] a = "arm"   -> [arch |-> "CS_ARCH_ARM", mode |-> "CS_MODE_ARM", gadget_re |-> arm_gadget[filter]]]

\* GadgetFinder.__init__ for elfs = [elf]: the fields it sets, or the
\* exception it raises
GadgetFinderInit(args) ==
    IF ArchModeGadgetRaises(args.gadget_filter) THEN [status |-> "KeyError"]
    ELSE IF args.elf_arch \notin DOMAIN arch_mode_gadget(args.gadget_filter)
         THEN [status |-> "Architecture not supported."]
    ELSE LET sel == arch_mode_gadget(args.gadget_filter)[args.elf_arch]
         IN [status        |-> "ok",
             depth         |-> args.depth,
             gadget_filter |-> args.gadget_filter,
             arch          |-> sel.arch,
             mode          |-> sel.mode,
             gadget_re     |-> sel.gadget_re,
             need_filter   |-> (sel.arch = "CS_ARCH_X86" /\ args.file_size >= MAX_SIZE * 1000)]

MaxDepth == 3

InitConstructor ==
    /\ k_args \in [elf_arch      : Archs \cup {"mips", "aarch64"},
                   gadget_filter : DOMAIN x86_gadget \cup DOMAIN arm_gadget \cup {T_bx},
                   depth         : 1..MaxDepth,
                   file_size     : {MAX_SIZE * 1000 - 1, MAX_SIZE * 1000}]
    /\ k_self = [status |-> "pending"]
    /\ IdleFilter /\ IdleClassifier /\ IdleVerifier /\ IdleLoader /\ IdleProcs

Construct ==
    /\ k_self = [status |-> "pending"]
    /\ k_self' = GadgetFinderInit(k_args)
    /\ UNCHANGED <<k_args, fvars, cvars, vvars, lvars, procs>>

NextConstructor == Construct

SpecConstructor == InitConstructor /\ [][NextConstructor]_vars

\* the pattern table of a supported architecture
TableOf(arch) == IF arch = "arm" THEN arm_gadget ELSE x86_gadget

\* C6: construction succeeds, with exactly the chosen category's pattern
\* list, for every supported architecture and every category of that
\* architecture's table or "all"; it fails only for an unsupported
\* architecture or a category that is not in the architecture's table.
C6_ConstructsForOwnTable ==
    k_self.status # "pending" =>
        LET supported == k_args.elf_arch \in Archs
            inTable   == supported /\ k_args.gadget_filter \in DOMAIN TableOf(k_args.elf_arch)
        IN  /\ (k_self.status = "ok") <=> inTable
            /\ inTable => k_self.gadget_re = TableOf(k_args.elf_arch)[k_args.gadget_filter]

----------------------------------------------------------------------------
(* GadgetSolver.verify_path.                                               *)
(* The solver is a collaborator.  For the constraint "wanted == expr" it   *)
(* answers as z3 does on these expressions: a constant equals the wanted   *)
(* value or the constraint is unsatisfiable and its model binds nothing; a *)
(* memory read or a register takes any value, and the model binds the cell *)
(* or the register to the wanted value.                                    *)

T_ebx == <<"e","b","x">>

\* _prove(conditions[reg] == constraint): the model, or no model
Prove(want, expr) ==
    CASE expr.k = "cst" -> [sat |-> want = expr.value, cells |-> <<>>, binds |-> 0]
      [] expr.k = "mem" -> [sat |-> TRUE, cells |-> <<[off |-> expr.disp, val |-> want]>>, binds |-> 1]
      [] OTHER          -> [sat |-> TRUE, cells |-> <<>>, binds |-> 1]

\* "if not model": None, and also a model that binds nothing, is falsy
ModelIsFalsy(model) == ~model.sat \/ model.binds = 0

\* conditions[name] for a dict kept as a set of key/value pairs
DictHas(d, key) == \E p \in d : p.key = key
DictGet(d, key) == (CHOOSE p \in d : p.key = key).value

\* OrderedDict(sorted(cells, key=itemgetter(0))): ascending offsets, the
\* last value listed for an offset
SortedStack(cells) ==
    LET offs == {cells[i].off : i \in 1..Len(cells)}
        last(o) == cells[CHOOSE i \in 1..Len(cells) :
                            /\ cells[i].off = o
                            /\ \A j \in (i + 1)..Len(cells) : cells[j].off # o]
        F[S \in SUBSET offs] ==
            IF S = {} THEN <<>>
            ELSE LET m == CHOOSE o \in S : \A q \in S : o <= q
                 IN <<last(m)>> \o F[S \ {m}]
    IN F[offs]

\* the loop of verify_path from entry i on
RECURSIVE verifyLoop(_, _, _, _, _)
verifyLoop(mp, conditions, i, move, stack_changed) ==
    IF i > Len(mp)
    THEN IF Len(stack_changed) = 0 THEN None
         ELSE [tag |-> "ok", move |-> move, stack |-> SortedStack(stack_changed)]
    ELSE LET reg        == mp[i].dst
             constraint == mp[i].src
         IN  IF Contains(T_sp, reg.name)
             THEN verifyLoop(mp, conditions, i + 1, ExtractOffset(constraint), stack_changed)
             ELSE IF DictHas(conditions, reg.name)
             THEN LET model == Prove(DictGet(conditions, reg.name), constraint)
                  IN IF ModelIsFalsy(model) THEN None
                     ELSE IF constraint.k = "mem" /\ Contains(T_sp, constraint.base)
                          THEN verifyLoop(mp, conditions, i + 1, move,
                                          stack_changed \o model.cells)
                          ELSE verifyLoop(mp, conditions, i + 1, move, stack_changed)
             ELSE verifyLoop(mp, conditions, i + 1, move, stack_changed)

\* GadgetSolver.verify_path; path.mapper is what
\* sym_exec_gadget_and_get_mapper(concate_bytes) returned
verify_path(path, conditions) == verifyLoop(path.mapper, conditions, 1, 0, <<>>)

MaxChainEntries == 4

\* the pairs the effect mapping of an i386 chain may hold
ChainEntries ==
       {[dst |-> RegDst(T_esp), src |-> OpExp(T_esp, o)] : o \in {8, 12}}
    \cup {[dst |-> RegDst(T_eip), src |-> MemExp(T_esp, 4, 32)]}
    \cup {[dst |-> RegDst(T_eax), src |-> e] :
              e \in {MemExp(T_esp, 0, 32), CstExp(1), RegExp(T_ebx)}}
    \cup {[dst |-> RegDst(T_ebx), src |-> e] :
              e \in {MemExp(T_esp, 4, 32), CstExp(2)}}

ChainMappers ==
    {m \in SeqsOf(ChainEntries, 1, MaxChainEntries) :
        /\ \A i, j \in 1..Len(m) : i # j => m[i].dst # m[j].dst
        /\ \E i \in 1..Len(m) : m[i].dst = RegDst(T_eip)
        /\ \E i \in 1..Len(m) : m[i].dst = RegDst(T_esp)}

\* post-conditions: each register named at most once
ConditionSets ==
    {c \in SUBSET [key : {T_eax, T_ebx, T_esp}, value : {1, 2}] :
        \A p, q \in c : p.key = q.key => p = q}

InitVerifier ==
    /\ \E m \in ChainMappers :
           v_path = [tag |-> "path", bytes |-> <<88, 195, 195>>, mapper |-> m]
    /\ v_conditions \in ConditionSets
    /\ v_result = [tag |-> "pending"]
    /\ IdleFilter /\ IdleClassifier /\ IdleConstructor /\ IdleLoader /\ IdleProcs

VerifyPath ==
    /\ v_result = [tag |-> "pending"]
    /\ v_result' = verify_path(v_path, v_conditions)
    /\ UNCHANGED <<v_path, v_conditions, fvars, cvars, kvars, lvars, procs>>

NextVerifier == VerifyPath

SpecVerifier == InitVerifier /\ [][NextVerifier]_vars

\* whether the chain's effect on the named register can equal the value
Satisfiable(mp, p) ==
    \E i \in 1..Len(mp) :
        /\ mp[i].dst = RegDst(p.key)
        /\ Prove(p.value, mp[i].src).sat

\* C8: verify_path returns a (total_move, stack_layout) result only if every
\* destination named in the post-conditions has a satisfiable equality
\* constraint against the chain's effect; one post-condition that cannot be
\* satisfied, also one on a register the chain never writes, makes it None.
C8_AllOrNothing ==
    v_result.tag = "ok" =>
        \A p \in v_conditions : Satisfiable(v_path.mapper, p)

----------------------------------------------------------------------------
(* The decoder (capstone, a collaborator): the instructions the model's    *)
(* segments are made of.  md.disasm decodes one instruction after the      *)
(* other and stops at the first bytes that are no instruction.             *)

T_push    == <<"p","u","s","h">>
T_es      == <<"e","s">>
T_r0_r0   == <<"r","0",","," ","r","0">>

\* x86 in mode CS_MODE_32 or CS_MODE_64: 58 pops eax or rax, 06 is
\* "push es" in 32-bit code and no instruction in 64-bit code
X86Decode(mode) ==
    (X86Insns \ {X86Insn(<<88>>)})
    \cup (IF mode = "CS_MODE_64"
          THEN {[bytes |-> <<88>>, mnemonic |-> T_pop, op_str |-> T_rax]}
          ELSE {[bytes |-> <<88>>, mnemonic |-> T_pop, op_str |-> T_eax],
                [bytes |-> <<6>>,  mnemonic |-> T_push, op_str |-> T_es]})

\* ARM: e8bd8010 pop {r4, pc}, e1a00000 mov r0, r0; ffffffff is no instruction
ArmDecode ==
    { [bytes |-> <<16, 128, 189, 232>>, mnemonic |-> T_pop, op_str |-> T_pop_r4pc],
      [bytes |-> <<0, 0, 160, 225>>,    mnemonic |-> T_mov, op_str |-> T_r0_r0] }

DecodeTable(arch, mode) == IF arch = "CS_ARCH_ARM" THEN ArmDecode ELSE X86Decode(mode)

IsPrefix(p, s) == Len(p) <= Len(s) /\ SubSeq(s, 1, Len(p)) = p

\* list(md.disasm(code, address)): the decoded instructions
RECURSIVE Disasm(_, _)
Disasm(table, code) ==
    IF \E d \in table : IsPrefix(d.bytes, code)
    THEN LET d == CHOOSE d \in table : IsPrefix(d.bytes, code)
         IN <<d>> \o Disasm(table, Drop(code, Len(d.bytes) + 1))
    ELSE <<>>

\* the list "gadget" built from the decoded instructions
GadgetTexts(ldecodes) ==
    [i \in 1..Len(ldecodes) |-> InsnText(ldecodes[i].mnemonic, ldecodes[i].op_str)]

----------------------------------------------------------------------------
(* GadgetFinder.__filter_for_big_binary_or_elf32.                          *)

\* pattern.match(insn) for each of the nine compiled patterns
ReMatchPop(s)     == IsPrefix(T_pop \o T_space, s) /\ Len(s) >= 7
ReMatchAddSp(s)   ==
    /\ Len(s) >= 10
    /\ IsPrefix(<<"a","d","d"," ">>, s)
    /\ SubSeq(s, 6, 9) = <<"s","p",","," ">>
    /\ \A i \in 10..Len(s) : s[i] # " "
ReMatchExact(w, s) == s = w
ReMatchTwoRegs(w, s) ==
    /\ Len(s) >= Len(w) + 9
    /\ IsPrefix(w \o T_space, s)
    /\ SubSeq(s, Len(w) + 5, Len(w) + 6) = <<","," ">>
ReMatchInt80(s) ==
    /\ IsPrefix(T_int \o T_space, s)
    /\ \E n \in 4..Len(s) :
           /\ \A i \in 4..n : s[i] = " "
           /\ IsPrefix(T_0x80, Drop(s, n + 1))

ValidInsn(insn) ==
    \/ ReMatchPop(insn)
    \/ ReMatchAddSp(insn)
    \/ ReMatchExact(T_ret, insn)
    \/ ReMatchExact(<<"l","e","a","v","e">>, insn)
    \/ ReMatchTwoRegs(T_mov, insn)
    \/ ReMatchTwoRegs(<<"x","c","h","g">>, insn)
    \/ ReMatchInt80(insn)
    \/ ReMatchExact(T_syscall, insn)
    \/ ReMatchExact(T_sysenter, insn)

filter_for_big_binary_or_elf32(onegad) ==
    IF \A i \in 1..Len(onegad.gadget) : ValidInsn(onegad.gadget[i])
    THEN <<onegad>> ELSE <<>>

----------------------------------------------------------------------------
(* GadgetFinder.__find_all_gadgets: the pattern search.                    *)

Max(a, b) == IF a >= b THEN a ELSE b
Min(a, b) == IF a <= b THEN a ELSE b

\* data[start:stop] of Python for stop >= 0: a negative start counts from
\* the end of data, and both ends are clamped to the data
PySlice(data, start, stop) ==
    LET n  == Len(data)
        lo == IF start < 0 THEN Max(n + start, 0) ELSE Min(start, n)
        hi == Min(stop, n)
    IN SubSeq(data, lo + 1, hi)

\* whether the pattern op matches data at 0-based offset k
PatMatchesAt(op, data, k) ==
    /\ k >= 0
    /\ k + Len(op) <= Len(data)
    /\ \A j \in 1..Len(op) : data[k + j] \in op[j]

\* [m.start() for m in re.finditer(op, data)]: the search resumes at the
\* end of each match, so the matches do not overlap
RECURSIVE FindIterFrom(_, _, _)
FindIterFrom(op, data, k) ==
    IF k + Len(op) > Len(data) THEN <<>>
    ELSE IF PatMatchesAt(op, data, k)
         THEN <<k>> \o FindIterFrom(op, data, k + Len(op))
         ELSE FindIterFrom(op, data, k + 1)

FindIter(op, data) == FindIterFrom(op, data, 0)

\* s1 + s2 + ... for F applied to each element of list in turn
ConcatMap(F(_), list) ==
    LET R[n \in 0..Len(list)] == IF n = 0 THEN <<>> ELSE R[n - 1] \o F(list[n])
    IN R[Len(list)]

\* the body of "for i in range(self.depth)" for one match ref of pattern gad
ScanStep(self, section, e, gad, ref, i) ==
    LET startAddress ==
            IF e.elftype = "DYN"
            THEN e.address + section.p_vaddr + ref - (i * gad.align)
            ELSE section.p_vaddr + ref - (i * gad.align)
        code     == PySlice(section.data, ref - (i * gad.align), ref + gad.size)
        ldecodes == Disasm(DecodeTable(self.arch, self.mode), code)
        onegad   == [address |-> startAddress,
                     gadget  |-> GadgetTexts(ldecodes),
                     bytes   |-> code]
    IN IF Len(ldecodes) > 0 /\ (startAddress % gad.align) = 0
       THEN IF self.need_filter
            THEN filter_for_big_binary_or_elf32(onegad)
            ELSE <<onegad>>
       ELSE <<>>

\* the three nested loops over patterns, matches and depths
PatternSearch(self, section, e) ==
    LET perRef(gad, ref) ==
            ConcatMap(LAMBDA n : ScanStep(self, section, e, gad, ref, n - 1),
                      [n \in 1..self.depth |-> n])
        perGad(gad) ==
            ConcatMap(LAMBDA ref : perRef(gad, ref), FindIter(gad.op, section.data))
    IN ConcatMap(perGad, self.gadget_re)

----------------------------------------------------------------------------
(* The gadget cache: __get_cachefile_name, __cache_load, __cache_save.     *)
(* A dict is a set of key/value pairs with distinct keys.  A cache file    *)
(* holds repr(dict): an opening brace, one item per key and a closing      *)
(* brace; eval gives the dict back from a text of exactly that form and    *)
(* raises on any other text.                                               *)

Tok(t, k, v) == [t |-> t, k |-> k, v |-> v]
LBrace == Tok("{", 0, <<>>)
RBrace == Tok("}", 0, <<>>)

Keys(d) == {p.key : p \in d}

\* repr(d)
Repr(d) ==
    LET F[S \in SUBSET Keys(d)] ==
            IF S = {} THEN <<>>
            ELSE LET m == CHOOSE k \in S : \A q \in S : k <= q
                 IN <<Tok("item", m, DictGet(d, m))>> \o F[S \ {m}]
    IN <<LBrace>> \o F[Keys(d)] \o <<RBrace>>

\* whether eval(text) returns (a dict) rather than raising
Evaluates(text) ==
    /\ Len(text) >= 2
    /\ text[1] = LBrace
    /\ text[Len(text)] = RBrace
    /\ \A i \in 2..(Len(text) - 1) : text[i].t = "item"

\* eval(text) for a text that evaluates
Eval(text) ==
    LET F[n \in 1..(Len(text) - 1)] ==
            IF n = 1 THEN {} ELSE DictSet(F[n - 1], text[n].k, text[n].v)
    IN F[Len(text) - 1]

\* hashlib.sha256(elf.get_data()).hexdigest(): one name per file content
Sha256(content) ==
    CASE content = "binA" -> "9f2c"
      [] content = "binB" -> "41d7"

CacheNames == {"9f2c", "41d7"}
NoFile == [exists |-> FALSE, text |-> <<>>]

\* __get_cachefile_name: the content hash, not the path, names the file
get_cachefile_name(e) == Sha256(e.data)

\* a conversion that leaves the stored addresses as they are
ToRuntimeUnshifted(e, d) == d

\* {k - elf.load_addr + elf.address: v for k, v in gadgets.items()}
ToRuntime(e, d) == {[key |-> p.key - e.load_addr + e.address, value |-> p.value] : p \in d}

\* {k + elf.load_addr - elf.address: v for k, v in data.items()}
ToStored(e, d) == {[key |-> p.key + e.load_addr - e.address, value |-> p.value] : p \in d}

\* __cache_load: None, the dict, or the exception eval raised
cache_load(e, dir) ==
    LET file == dir[get_cachefile_name(e)]
    IN IF ~file.exists THEN [tag |-> "None"]
       ELSE IF ~Evaluates(file.text) THEN [tag |-> "raise"]
       ELSE [tag |-> "dict", d |-> ToRuntime(e, Eval(file.text))]

\* __cache_save: the cache directory afterwards
cache_save(e, data, dir) ==
    [dir EXCEPT ![get_cachefile_name(e)] =
        [exists |-> TRUE, text |-> Repr(ToStored(e, data))]]

----------------------------------------------------------------------------
(* __find_all_gadgets and load_gadgets.                                    *)

\* the gadgets rebuilt from a cache dict, in the order of its keys
FromCache(self, cache) ==
    LET one(item) ==
            LET ldecodes == Disasm(DecodeTable(self.arch, self.mode), item.v)
            IN IF Len(ldecodes) > 0
               THEN <<[address |-> item.k, gadget |-> GadgetTexts(ldecodes), bytes |-> item.v]>>
               ELSE <<>>
        items == Repr(cache)
    IN ConcatMap(one, SubSeq(items, 2, Len(items) - 1))

\* __find_all_gadgets(section, self.gadget_re, elf): the list returned and
\* whether the pattern search ran, or the exception of __cache_load
find_all_gadgets(self, section, e, dir) ==
    LET cache == cache_load(e, dir)
    IN IF cache.tag = "raise" THEN [status |-> "raise", allgadgets |-> <<>>, searched |-> FALSE]
       ELSE IF cache.tag = "dict" /\ cache.d # {}
            THEN [status |-> "ok", allgadgets |-> FromCache(self, cache.d), searched |-> FALSE]
       ELSE [status |-> "ok", allgadgets |-> PatternSearch(self, section, e), searched |-> TRUE]

\* data[gad["address"]] = gad["bytes"] for each gadget in turn
BuildData(gs) ==
    LET F[n \in 0..Len(gs)] ==
            IF n = 0 THEN {} ELSE DictSet(F[n - 1], gs[n].address, gs[n].bytes)
    IN F[Len(gs)]

\* load_gadgets for self.elfs = [elf]: what it returns (or that it raised),
\* whether it searched, and the cache directory it leaves
load_gadgets(self, e, dir) ==
    LET segs    == e.executable_segments
        found   == [n \in 1..Len(segs) |-> find_all_gadgets(self, segs[n], e, dir)]
        raised  == \E n \in 1..Len(segs) : found[n].status = "raise"
        all     == ConcatMap(LAMBDA f : f.allgadgets, found)
        cleaned == IF self.arch = "CS_ARCH_X86" THEN passCleanX86(all, self.gadget_filter, FALSE)
                   ELSE all
        out     == deduplicate(cleaned)
    IN IF raised
       THEN [status |-> "raise", out |-> <<>>, searched |-> FALSE, dir |-> dir]
       ELSE [status |-> "ok", out |-> out,
             searched |-> \E n \in 1..Len(segs) : found[n].searched,
             dir |-> cache_save(e, BuildData(out), dir)]

----------------------------------------------------------------------------
(* The cache on its own: saves and loads of any mapping, for two binaries  *)
(* and several runtime addresses.                                          *)

MaxCacheItems == 2

IdleOthers == IdleFilter /\ IdleClassifier /\ IdleConstructor /\ IdleVerifier /\ IdleProcs
others == <<fvars, cvars, kvars, vvars, procs>>

\* an ELF object: its content, the load address its file gives
\* (load_addr), where it is taken to be loaded (address), and its segments
Elf(arch, elftype, content, load_addr, address, segs) ==
    [arch |-> arch, elftype |-> elftype, data |-> content, load_addr |-> load_addr,
     address |-> address, executable_segments |-> segs]

CacheElfs ==
    {Elf("i386", "DYN", "binA", 0, a, <<>>) : a \in {0, 32}}
    \cup {Elf("i386", "EXEC", "binB", 16, a, <<>>) : a \in {16, 32}}

\* the mappings handed to __cache_save: gadget address -> bytes
CacheData ==
    {d \in SUBSET [key : {48, 49, 50}, value : {<<195>>, <<88, 195>>}] :
        /\ Cardinality(d) <= MaxCacheItems
        /\ \A p, q \in d : p.key = q.key => p = q}

NotSaved == [done |-> FALSE, data |-> {}, address |-> 0]

InitCache ==
    /\ elf \in CacheElfs
    /\ cachedir = [n \in CacheNames |-> NoFile]
    /\ saved = [n \in CacheNames |-> NotSaved]
    /\ loaded = [tag |-> "pending"]
    /\ finder = None /\ scan_out = None /\ calls = <<>>
    /\ IdleOthers

\* the caller turns to another ELF object: the other binary, or the same
\* binary taken to be loaded elsewhere
UseElf ==
    /\ \E e \in CacheElfs \ {elf} : elf' = e
    /\ UNCHANGED <<finder, cachedir, scan_out, calls, saved, loaded, others>>

CacheSave ==
    /\ \E d \in CacheData :
          /\ cachedir' = cache_save(elf, d, cachedir)
          /\ saved' = [saved EXCEPT ![get_cachefile_name(elf)] =
                          [done |-> TRUE, data |-> d, address |-> elf.address]]
    /\ loaded' = [tag |-> "pending"]
    /\ UNCHANGED <<finder, elf, scan_out, calls, others>>

CacheLoad ==
    /\ loaded' = [tag |-> "done", name |-> get_cachefile_name(elf),
                  address |-> elf.address, result |-> cache_load(elf, cachedir)]
    /\ UNCHANGED <<finder, elf, cachedir, scan_out, calls, saved, others>>

NextCache == UseElf \/ CacheSave \/ CacheLoad

SpecCache == InitCache /\ [][NextCache]_vars

Shifted(d, delta) == {[key |-> p.key + delta, value |-> p.value] : p \in d}

\* C4: a load after a save of mapping M under the same binary identity
\* returns M when the runtime address is the one of the save, and M with
\* every address moved by A2 - A1 when the binary was saved at runtime
\* address A1 and is loaded at A2; a load for an identity never saved
\* returns None.
C4_CacheRoundTrip ==
    loaded.tag = "done" =>
        LET s == saved[loaded.name]
        IN IF s.done
           THEN loaded.result =
                    [tag |-> "dict", d |-> Shifted(s.data, loaded.address - s.address)]
           ELSE loaded.result = [tag |-> "None"]

\* a non-empty mapping saved at one address and loaded at another, while
\* the other binary has its own entry
C4_Witness ==
    /\ loaded.tag = "done"
    /\ saved[loaded.name].done
    /\ saved[loaded.name].data # {}
    /\ saved[loaded.name].address # loaded.address
    /\ loaded.result.tag = "dict"
    /\ \E n \in CacheNames \ {loaded.name} : saved[n].done

----------------------------------------------------------------------------
(* Scanning and loading: a GadgetFinder constructed on one ELF whose       *)
(* executable segments are made of whole instructions.                     *)

MaxPieces == 3
MaxCalls == 2

X86Pieces == {<<195>>, <<88>>, <<6>>}
ArmPieces == {<<16, 128, 189, 232>>, <<0, 0, 160, 225>>, <<255, 255, 255, 255>>}

Segment(p_vaddr, pieces) == [p_vaddr |-> p_vaddr, data |-> Flatten(pieces)]

\* one executable segment at 16, or two at 16 and 64, of MaxPieces
\* instructions in all
SegmentLists(pieces) ==
    {<<Segment(16, ps)>> : ps \in SeqsOf(pieces, 1, MaxPieces)}
    \cup {<<Segment(16, SubSeq(ps, 1, k)), Segment(64, SubSeq(ps, k + 1, Len(ps)))>> :
              ps \in SeqsOf(pieces, 2, MaxPieces), k \in 1..(MaxPieces - 1)}

\* an executable loaded where its file says, or a shared object at its
\* file addresses or re-based
ScanElfs(arch) ==
    LET pieces == IF arch = "arm" THEN ArmPieces ELSE X86Pieces
    IN {Elf(arch, "EXEC", "binA", 16, 16, segs) : segs \in SegmentLists(pieces)}
       \cup {Elf(arch, "DYN", "binA", 0, a, segs) :
                 a \in {0, 32, 34}, segs \in SegmentLists(pieces)}

\* the finders the constructor builds for the ELF
InitFinder ==
    /\ \E arch \in Archs, filter \in {T_ret, T_all}, depth \in 1..MaxDepth,
          size \in {MAX_SIZE * 1000 - 1, MAX_SIZE * 1000} :
          /\ finder = GadgetFinderInit([elf_arch |-> arch, gadget_filter |-> filter,
                                        depth |-> depth, file_size |-> size])
          /\ elf \in ScanElfs(arch)
    /\ cachedir = [n \in CacheNames |-> NoFile]
    /\ saved = <<>> /\ loaded = None
    /\ IdleOthers

InitScan == InitFinder /\ scan_out = [tag |-> "pending"] /\ calls = <<>>

FindAllGadgets ==
    /\ scan_out = [tag |-> "pending"]
    /\ \E n \in 1..Len(elf.executable_segments) :
          scan_out' = [tag |-> "done", seg |-> n,
                       ret |-> find_all_gadgets(finder, elf.executable_segments[n], elf, cachedir)]
    /\ UNCHANGED <<finder, elf, cachedir, calls, saved, loaded, others>>

NextScan == FindAllGadgets

SpecScan == InitScan /\ [][NextScan]_vars

\* the runtime address of offset 0 of a segment
SegmentBase(e, section) ==
    IF e.elftype = "DYN" THEN e.address + section.p_vaddr ELSE section.p_vaddr

\* C5: every candidate the pattern search produces for a segment starts at
\* offset k - i*a of the segment, for a match of a pattern at offset k and
\* some i in [0, depth), has a start address that is a multiple of a, and
\* its bytes are the segment's bytes from offset k - i*a up to k + n, also
\* for matches near the beginning of the segment.
C5_CandidatesAreBackwardSlices ==
    scan_out.tag = "done" =>
        LET section == elf.executable_segments[scan_out.seg]
            data    == section.data
            cands   == scan_out.ret.allgadgets
        IN \A c \in Range(cands) :
              \E g \in Range(finder.gadget_re), k \in 0..Len(data), i \in 0..(finder.depth - 1) :
                  LET o == k - i * g.align
                  IN  /\ PatMatchesAt(g.op, data, k)
                      /\ o >= 0
                      /\ c.address = SegmentBase(elf, section) + o
                      /\ c.address % g.align = 0
                      /\ c.bytes = SubSeq(data, o + 1, k + g.size)

----------------------------------------------------------------------------
(* load_gadgets called again and again on the same GadgetFinder, while     *)
(* the cache file may get damaged between two calls.                       *)

InitLoad == InitFinder /\ scan_out = None /\ calls = <<>>

CacheFile == cachedir[get_cachefile_name(elf)]

LoadGadgets ==
    /\ Len(calls) < MaxCalls
    /\ LET r == load_gadgets(finder, elf, cachedir)
       IN /\ calls' = Append(calls,
                 [status  |-> r.status, out |-> r.out, searched |-> r.searched,
                  corrupt |-> (CacheFile.exists /\ ~Evaluates(CacheFile.text)),
                  before  |-> CacheFile,
                  after   |-> r.dir[get_cachefile_name(elf)]])
          /\ cachedir' = r.dir
    /\ UNCHANGED <<finder, elf, scan_out, saved, loaded, others>>

\* the file is cut short (a crashed writer, a full disk)
CorruptCache ==
    /\ CacheFile.exists
    /\ Evaluates(CacheFile.text)
    /\ Len(calls) < MaxCalls
    /\ \E n \in 0..(Len(CacheFile.text) - 1) :
          cachedir' = [cachedir EXCEPT ![get_cachefile_name(elf)] =
                          [exists |-> TRUE, text |-> SubSeq(CacheFile.text, 1, n)]]
    /\ UNCHANGED <<finder, elf, scan_out, calls, saved, loaded, others>>

NextLoad == LoadGadgets \/ CorruptCache

SpecLoad == InitLoad /\ [][NextLoad]_vars

\* what load_gadgets returns when there is no cache file
FreshScan == load_gadgets(finder, elf, [n \in CacheNames |-> NoFile])

\* the gadgets of a result as a set of (address, raw bytes)
GadgetSet(out) == {<<out[i].address, out[i].bytes>> : i \in 1..Len(out)}

\* C7: a call that finds the cache file corrupt does not fail: it searches
\* the binary again and returns the gadgets of a fresh scan.
C7_CorruptCacheIsAMiss ==
    \A i \in 1..Len(calls) :
        calls[i].corrupt =>
            /\ calls[i].status = "ok"
            /\ calls[i].searched
            /\ GadgetSet(calls[i].out) = GadgetSet(FreshScan.out)

\* C10: a second call on the unchanged binary at the same address, made
\* with the cache entry the first call wrote for the gadgets it found,
\* skips the pattern search, returns the same set of (address, raw bytes)
\* gadgets as the first call and leaves the cache entry as it was.
C10_SecondCallFromCache ==
    (/\ Len(calls) = 2
     /\ calls[1].status = "ok"
     /\ calls[1].out # <<>>
     /\ calls[2].before = calls[1].after) =>
        /\ calls[2].status = "ok"
        /\ ~calls[2].searched
        /\ GadgetSet(calls[2].out) = GadgetSet(calls[1].out)
        /\ calls[2].after = calls[1].after

----------------------------------------------------------------------------
(* Several processes on one cache file.  __cache_save opens the file with  *)
(* mode 'w+', which truncates it, and the text then reaches the file in    *)
(* one write per buffer-full, each at the writer's own offset;             *)
(* __cache_load tests os.path.exists and then reads the whole file.        *)

MaxOps == 2
ChunkLen == 2

Procs == {"p1", "p2"}
ConcElf == Elf("i386", "EXEC", "binA", 16, 16, <<>>)
ConcData ==
    { {[key |-> 48, value |-> <<195>>]},
      {[key |-> 48, value |-> <<88, 195>>], [key |-> 49, value |-> <<195>>]} }

Hole == Tok("hole", 0, <<>>)

\* the file after write(2) of chunk at offset pos: a gap is filled with holes
WriteAt(text, pos, chunk) ==
    LET n   == Len(text)
        pad == [i \in 1..Max(pos - n, 0) |-> Hole]
    IN SubSeq(text, 1, Min(pos, n)) \o pad \o chunk
       \o SubSeq(text, pos + Len(chunk) + 1, n)

IdleProc(ops) ==
    [pc |-> "idle", buf |-> <<>>, pos |-> 0, ops |-> ops,
     got |-> [tag |-> "nothing", text |-> <<>>]]

InitConc ==
    /\ procs = [p \in Procs |-> IdleProc(0)]
    /\ cachedir = [n \in CacheNames |-> NoFile]
    /\ elf = ConcElf
    /\ finder = None /\ scan_out = None /\ calls = <<>> /\ saved = <<>> /\ loaded = None
    /\ IdleFilter /\ IdleClassifier /\ IdleConstructor /\ IdleVerifier

ConcFile == cachedir[get_cachefile_name(elf)]
SetConcFile(f) == [cachedir EXCEPT ![get_cachefile_name(elf)] = f]
ConcRest == <<fvars, cvars, kvars, vvars, finder, elf, scan_out, calls, saved, loaded>>

\* a process enters __cache_save(elf, data): repr(data) is ready to write
SaveBegin(p) ==
    /\ procs[p].pc = "idle" /\ procs[p].ops < MaxOps
    /\ \E d \in ConcData :
          procs' = [procs EXCEPT ![p].pc = "save_open",
                                 ![p].buf = Repr(ToStored(elf, d)),
                                 ![p].ops = @ + 1]
    /\ UNCHANGED <<cachedir, ConcRest>>

\* file(name, 'w+'): the file exists and is empty
SaveOpen(p) ==
    /\ procs[p].pc = "save_open"
    /\ cachedir' = SetConcFile([exists |-> TRUE, text |-> <<>>])
    /\ procs' = [procs EXCEPT ![p].pc = "save_write", ![p].pos = 0]
    /\ UNCHANGED ConcRest

\* one buffer-full reaches the file; the call returns after the last one
SaveWrite(p) ==
    /\ procs[p].pc = "save_write"
    /\ LET chunk == SubSeq(procs[p].buf, 1, Min(ChunkLen, Len(procs[p].buf)))
           rest  == Drop(procs[p].buf, Len(chunk) + 1)
       IN /\ cachedir' = SetConcFile([exists |-> TRUE,
                                      text |-> WriteAt(ConcFile.text, procs[p].pos, chunk)])
          /\ procs' = [procs EXCEPT ![p].buf = rest,
                                    ![p].pos = @ + Len(chunk),
                                    ![p].pc = IF rest = <<>> THEN "idle" ELSE "save_write"]
    /\ UNCHANGED ConcRest

\* a process enters __cache_load(elf): os.path.exists(filename)
LoadExists(p) ==
    /\ procs[p].pc = "idle" /\ procs[p].ops < MaxOps
    /\ procs' = [procs EXCEPT
                    ![p].pc  = IF ConcFile.exists THEN "load_read" ELSE "idle",
                    ![p].got = IF ConcFile.exists THEN @ ELSE [tag |-> "None", text |-> <<>>],
                    ![p].ops = @ + 1]
    /\ UNCHANGED <<cachedir, ConcRest>>

\* file(filename).read() and eval of what was read
LoadRead(p) ==
    /\ procs[p].pc = "load_read"
    /\ procs' = [procs EXCEPT
                    ![p].pc  = "idle",
                    ![p].got = [tag  |-> IF Evaluates(ConcFile.text) THEN "dict" ELSE "raise",
                                text |-> ConcFile.text]]
    /\ UNCHANGED <<cachedir, ConcRest>>

NextConc ==
    \E p \in Procs :
        SaveBegin(p) \/ SaveOpen(p) \/ SaveWrite(p) \/ LoadExists(p) \/ LoadRead(p)

SpecConc == InitConc /\ [][NextConc]_vars

\* C9: with several processes saving and loading the same cache entry, a
\* load sees no entry or the complete text of one save, never a file that
\* is still being written.
C9_NoPartialRead ==
    \A p \in Procs :
        procs[p].got.tag \in {"dict", "raise"} =>
            \E d \in ConcData : procs[p].got.text = Repr(ToStored(elf, d))

=============================================================================
